---- MODULE Spec2Model ----
(***************************************************************************)
(* Model of the two browser verification scripts of the dream journal:     *)
(*   jules-scratch/verification/verify_flash.py   (async, two test cases)  *)
(*   jules-scratch/verification/verify_spacing.py (sync, one test case)    *)
(*                                                                         *)
(* One behaviour is one run of one script.  "script" is fixed in Init; pc  *)
(* is the statement the script is about to execute.  The page under test   *)
(* (index.html) is an external collaborator: the elements it shows and     *)
(* hides change nondeterministically (PageChange), and time passes while a *)
(* visibility assertion is pending (Tick).  Every step of the verification *)
(* sequence (navigation, fill, click, event dispatch, visibility           *)
(* assertion, screenshot) either completes or raises.                      *)
(***************************************************************************)
EXTENDS Integers, Sequences, FiniteSets, TLC

VARIABLES
    script,         \* "flash" or "spacing": the script being run
    pc,             \* the statement about to be executed
    pw,             \* the playwright session of the with block
    browser,        \* the browser returned by chromium.launch()
    ctxState,       \* browser contexts: "none", "open", "closed"
    initScripts,    \* per context: keys set by its registered init scripts
    storage,        \* per context: keys present in localStorage
    pageState,      \* pages: "none", "open", "closed"
    pageCtx,        \* per page: the context it belongs to (0: none)
    ownsCtx,        \* per page: TRUE when created by browser.new_page()
    page,           \* the script's local variable page (0: unbound)
    context,        \* verify_flash's local variable context (0: unbound)
    visible,        \* per page: the elements currently visible
    startupStorage, \* per page: localStorage seen by the page's first script
    navigated,      \* per page: TRUE once goto has committed a document
    toggles,        \* per page: number of visibility changes so far
    consoleMsgs,    \* number of console messages forwarded so far
    elapsed,        \* time units spent in the pending visibility assertion
    trace,          \* the steps executed so far, in order
    passedAt,       \* per assertion step: elapsed time when it passed, -1
    failed,         \* the first step that raised, "none"
    exc,            \* the exception in flight (named by its step), "none"
    shots,          \* the screenshot files written
    out,            \* the lines printed on standard output
    exitStatus,     \* -1 while running, then the process exit status
    journalFlashed  \* #journalTab showed up before #lockTab was asserted

vars == << script, pc, pw, browser, ctxState, initScripts, storage, pageState,
           pageCtx, ownsCtx, page, context, visible, startupStorage,
           navigated, toggles, consoleMsgs, elapsed, trace, passedAt, failed,
           exc, shots, out, exitStatus, journalFlashed >>

browserVars == << browser, ctxState, pageState, pageCtx, ownsCtx, page,
                  context >>
storeVars   == << initScripts, storage, startupStorage, navigated >>
domVars     == << visible, toggles, journalFlashed >>
ioVars      == << shots, out, consoleMsgs >>

----------------------------------------------------------------------------
(* Bounds *)

MaxToggles == 3     \* visibility changes of one page
MaxConsole == 1     \* console messages of the page

(* Program constants, in seconds *)

JournalTimeout  == 5    \* to_be_visible(timeout=5000)
LockTimeout     == 5    \* to_be_visible(timeout=5000)
TextareaTimeout == 10   \* to_be_visible(timeout=10000)
DefaultTimeout  == 5    \* expect(...) without timeout: 5000 ms

CtxIds  == 1 .. 2
PageIds == 1 .. 2

PinKey == "dreamJournalPinHash"
Keys   == { PinKey }

UnlockedShot == "jules-scratch/verification/unlocked_view.png"
LockedShot   == "jules-scratch/verification/locked_view.png"
EditShot     == "jules-scratch/verification/verification.png"

FlashElements   == { "#journalTab", "#lockTab" }
SpacingElements == { ".entry", ".entry textarea" }

----------------------------------------------------------------------------
(* Control flow *)

FlashOrder ==
    << "f_launch", "f1_new_page", "f1_goto", "f1_expect_journal",
       "f1_screenshot", "f1_page_close", "f2_new_context",
       "f2_add_init_script", "f2_new_page", "f2_goto", "f2_expect_lock",
       "f2_expect_not_journal", "f2_screenshot", "f_browser_close",
       "f_exit_with", "ended" >>

SpacingOrder ==
    << "s_launch", "s_new_page", "s_page_on", "s_goto", "s_fill_title",
       "s_fill_content", "s_click_save", "s_expect_entry", "s_dispatch_edit",
       "s_expect_textarea", "s_screenshot", "s_print_ok", "s_finally_close",
       "s_exit_with", "ended" >>

Order(s) == IF s = "flash" THEN FlashOrder ELSE SpacingOrder

IndexOf(seq, x) == CHOOSE i \in 1 .. Len(seq) : seq[i] = x

\* the statement that follows step when step completes
Succ(s, step) ==
    IF step = "s_print_fail" THEN "s_finally_close"
    ELSE Order(s)[IndexOf(Order(s), step) + 1]

\* a mutated handler: the exception is swallowed and the next statement runs
HandlerContinue(s, step) == Succ(s, step)

\* where control goes when step raises: verify_flash has no handler, the
\* exception leaves main through the with block; verify_spacing's steps run
\* inside try, its except clause is entered
Handler(s, step) ==
    IF s = "flash" THEN "f_exit_with" ELSE "s_print_fail"

Ok(step) ==
    /\ pc = step
    /\ pc' = Succ(script, step)
    /\ trace' = Append(trace, step)
    /\ UNCHANGED << failed, exc >>

Raise(step) ==
    /\ pc = step
    /\ pc' = Handler(script, step)
    /\ trace' = Append(trace, step)
    /\ failed' = IF failed = "none" THEN step ELSE failed
    /\ exc' = step

----------------------------------------------------------------------------
(* The browser automation library, as the scripts use it *)

ExpectSteps ==
    { "f1_expect_journal", "f2_expect_lock", "f2_expect_not_journal",
      "s_expect_entry", "s_expect_textarea" }

\* the timeout of each visibility assertion
Timeout(step) ==
    CASE step = "f1_expect_journal"     -> JournalTimeout
      [] step = "f2_expect_lock"        -> LockTimeout
      [] step = "f2_expect_not_journal" -> DefaultTimeout
      [] step = "s_expect_entry"        -> DefaultTimeout
      [] step = "s_expect_textarea"     -> TextareaTimeout

\* the condition each visibility assertion waits for, on page p
Holds(step, p) ==
    CASE step = "f1_expect_journal"     -> "#journalTab" \in visible[p]
      [] step = "f2_expect_lock"        -> "#lockTab" \in visible[p]
      [] step = "f2_expect_not_journal" -> "#journalTab" \notin visible[p]
      [] step = "s_expect_entry"        -> ".entry" \in visible[p]
      [] step = "s_expect_textarea"     -> ".entry textarea" \in visible[p]

Elements(s) == IF s = "flash" THEN FlashElements ELSE SpacingElements

FreshCtx  == CHOOSE c \in CtxIds :
                /\ ctxState[c] = "none"
                /\ \A d \in CtxIds : d < c => ctxState[d] # "none"
FreshPage == CHOOSE p \in PageIds :
                /\ pageState[p] = "none"
                /\ \A q \in PageIds : q < p => pageState[q] # "none"

\* a mutated new_context: the context of the earlier page is reused
ReusedContextId == pageCtx[page]

\* browser.new_context(): the id of the context it returns
NewContextId == FreshCtx

\* context.add_init_script(): the contexts whose pages run the script
InitScriptScope(c) == { c }

\* a mutated page load: the init scripts run after the page's own scripts
StorageWithoutInit(c) == storage[c]

\* localStorage of context c when the first script of a new document runs:
\* the context's init scripts have been evaluated before it
StorageAtFirstScript(c) == storage[c] \cup initScripts[c]

\* browser.new_page(): a page in a context of its own
BrowserNewPage ==
    LET c == FreshCtx
        p == FreshPage
    IN  /\ ctxState' = [ctxState EXCEPT ![c] = "open"]
        /\ pageState' = [pageState EXCEPT ![p] = "open"]
        /\ pageCtx' = [pageCtx EXCEPT ![p] = c]
        /\ ownsCtx' = [ownsCtx EXCEPT ![p] = TRUE]
        /\ page' = p

\* page.goto(url) completing: a new document, init scripts, first script
Navigate(p) ==
    LET c == pageCtx[p]
    IN  /\ navigated' = [navigated EXCEPT ![p] = TRUE]
        /\ visible' = [visible EXCEPT ![p] = {}]
        /\ storage' = [storage EXCEPT ![c] = StorageAtFirstScript(c)]
        /\ startupStorage' =
               [startupStorage EXCEPT ![p] = StorageAtFirstScript(c)]

\* expect(locator).to_be_visible / not_to_be_visible: passes as soon as the
\* condition holds within the timeout, raises when the timeout has elapsed
Expect(step) ==
    /\ pc = step
    /\ \/ /\ Holds(step, page)
          /\ elapsed <= Timeout(step)
          /\ Ok(step)
          /\ passedAt' = [passedAt EXCEPT ![step] = elapsed]
       \/ /\ ~ Holds(step, page)
          /\ elapsed = Timeout(step)
          /\ Raise(step)
          /\ UNCHANGED passedAt
    /\ elapsed' = 0

\* a step that only completes or raises
Plain(step, ok) ==
    /\ IF ok THEN Ok(step) ELSE Raise(step)
    /\ UNCHANGED << elapsed, passedAt >>

\* page.screenshot / locator.screenshot to path
Screenshot(step, path, ok) ==
    /\ Plain(step, ok)
    /\ shots' = IF ok THEN shots \cup { path } ELSE shots

\* browser.close(): every context and page of the browser is closed
CloseBrowser ==
    /\ browser' = "closed"
    /\ ctxState' = [c \in CtxIds |->
                      IF ctxState[c] = "open" THEN "closed" ELSE ctxState[c]]
    /\ pageState' = [p \in PageIds |->
                      IF pageState[p] = "open" THEN "closed" ELSE pageState[p]]

\* leaving the with block: the playwright session stops, the process ends
ExitWith(step) ==
    /\ Ok(step)
    /\ pw' = "stopped"
    /\ exitStatus' = IF exc = "none" THEN 0 ELSE 1
    /\ UNCHANGED << script, browserVars, storeVars, domVars, ioVars, elapsed,
                    passedAt >>

----------------------------------------------------------------------------
Init ==
    /\ script \in { "flash", "spacing" }
    /\ pc = Order(script)[1]
    /\ pw = "none"
    /\ browser = "none"
    /\ ctxState = [c \in CtxIds |-> "none"]
    /\ initScripts = [c \in CtxIds |-> {}]
    /\ storage = [c \in CtxIds |-> {}]
    /\ pageState = [p \in PageIds |-> "none"]
    /\ pageCtx = [p \in PageIds |-> 0]
    /\ ownsCtx = [p \in PageIds |-> FALSE]
    /\ page = 0
    /\ context = 0
    /\ visible = [p \in PageIds |-> {}]
    /\ startupStorage = [p \in PageIds |-> {}]
    /\ navigated = [p \in PageIds |-> FALSE]
    /\ toggles = [p \in PageIds |-> 0]
    /\ consoleMsgs = 0
    /\ elapsed = 0
    /\ trace = << >>
    /\ passedAt = [s \in ExpectSteps |-> -1]
    /\ failed = "none"
    /\ exc = "none"
    /\ shots = {}
    /\ out = << >>
    /\ exitStatus = -1
    /\ journalFlashed = FALSE

----------------------------------------------------------------------------
(* verify_flash.py *)

F_Launch ==
    /\ script = "flash"
    /\ Ok("f_launch")
    /\ pw' = "running"
    /\ browser' = "open"
    /\ UNCHANGED << script, ctxState, pageState, pageCtx, ownsCtx, page,
                    context, storeVars, domVars, ioVars, elapsed, passedAt,
                    exitStatus >>

F1_NewPage ==
    /\ Ok("f1_new_page")
    /\ BrowserNewPage
    /\ UNCHANGED << script, pw, browser, context, storeVars, domVars, ioVars,
                    elapsed, passedAt, exitStatus >>

F1_Goto ==
    \E ok \in BOOLEAN :
        /\ Plain("f1_goto", ok)
        /\ IF ok THEN Navigate(page)
                 ELSE UNCHANGED << navigated, visible, storage,
                                   startupStorage >>
        /\ UNCHANGED << script, pw, browserVars, initScripts, toggles,
                        journalFlashed, ioVars, exitStatus >>

F1_ExpectJournal ==
    /\ Expect("f1_expect_journal")
    /\ UNCHANGED << script, pw, browserVars, storeVars, domVars, ioVars,
                    exitStatus >>

F1_Screenshot ==
    \E ok \in BOOLEAN :
        /\ Screenshot("f1_screenshot", UnlockedShot, ok)
        /\ UNCHANGED << script, pw, browserVars, storeVars, domVars, out,
                        consoleMsgs, exitStatus >>

F1_PageClose ==
    /\ Ok("f1_page_close")
    /\ pageState' = [pageState EXCEPT ![page] = "closed"]
    /\ ctxState' = IF ownsCtx[page]
                   THEN [ctxState EXCEPT ![pageCtx[page]] = "closed"]
                   ELSE ctxState
    /\ UNCHANGED << script, pw, browser, pageCtx, ownsCtx, page, context,
                    storeVars, domVars, ioVars, elapsed, passedAt,
                    exitStatus >>

F2_NewContext ==
    /\ Ok("f2_new_context")
    /\ context' = NewContextId
    /\ ctxState' = [ctxState EXCEPT ![NewContextId] = "open"]
    /\ UNCHANGED << script, pw, browser, pageState, pageCtx, ownsCtx, page,
                    storeVars, domVars, ioVars, elapsed, passedAt,
                    exitStatus >>

F2_AddInitScript ==
    /\ Ok("f2_add_init_script")
    /\ initScripts' = [c \in CtxIds |->
                          IF c \in InitScriptScope(context)
                          THEN initScripts[c] \cup { PinKey }
                          ELSE initScripts[c]]
    /\ UNCHANGED << script, pw, browserVars, storage, startupStorage,
                    navigated, domVars, ioVars, elapsed, passedAt,
                    exitStatus >>

F2_NewPage ==
    /\ Ok("f2_new_page")
    /\ pageState' = [pageState EXCEPT ![FreshPage] = "open"]
    /\ pageCtx' = [pageCtx EXCEPT ![FreshPage] = context]
    /\ page' = FreshPage
    /\ UNCHANGED << script, pw, browser, ctxState, ownsCtx, context,
                    storeVars, domVars, ioVars, elapsed, passedAt,
                    exitStatus >>

F2_Goto ==
    \E ok \in BOOLEAN :
        /\ Plain("f2_goto", ok)
        /\ IF ok THEN Navigate(page)
                 ELSE UNCHANGED << navigated, visible, storage,
                                   startupStorage >>
        /\ UNCHANGED << script, pw, browserVars, initScripts, toggles,
                        journalFlashed, ioVars, exitStatus >>

F2_ExpectLock ==
    /\ Expect("f2_expect_lock")
    /\ UNCHANGED << script, pw, browserVars, storeVars, domVars, ioVars,
                    exitStatus >>

F2_ExpectNotJournal ==
    /\ Expect("f2_expect_not_journal")
    /\ UNCHANGED << script, pw, browserVars, storeVars, domVars, ioVars,
                    exitStatus >>

F2_Screenshot ==
    \E ok \in BOOLEAN :
        /\ Screenshot("f2_screenshot", LockedShot, ok)
        /\ UNCHANGED << script, pw, browserVars, storeVars, domVars, out,
                        consoleMsgs, exitStatus >>

F_BrowserClose ==
    /\ Ok("f_browser_close")
    /\ CloseBrowser
    /\ UNCHANGED << script, pw, pageCtx, ownsCtx, page, context, storeVars,
                    domVars, ioVars, elapsed, passedAt, exitStatus >>

F_ExitWith ==
    /\ script = "flash"
    /\ ExitWith("f_exit_with")

----------------------------------------------------------------------------
(* verify_spacing.py *)

OkLine == [text |-> "Verification script ran successfully.", msg |-> "none"]

\* a mutated failure line: the exception's message is left out
FailLineNoMessage(e) == [text |-> "Verification script failed: ",
                         msg |-> "none"]

\* print(f"Verification script failed: {e}")
FailLine(e) == [text |-> "Verification script failed: ", msg |-> e]

ConsoleLine == [text |-> "Browser Console: ", msg |-> "console"]

S_Launch ==
    /\ script = "spacing"
    /\ Ok("s_launch")
    /\ pw' = "running"
    /\ browser' = "open"
    /\ UNCHANGED << script, ctxState, pageState, pageCtx, ownsCtx, page,
                    context, storeVars, domVars, ioVars, elapsed, passedAt,
                    exitStatus >>

S_NewPage ==
    /\ Ok("s_new_page")
    /\ BrowserNewPage
    /\ UNCHANGED << script, pw, browser, context, storeVars, domVars, ioVars,
                    elapsed, passedAt, exitStatus >>

\* page.on("console", ...): from here on console messages are printed
S_PageOn ==
    /\ Ok("s_page_on")
    /\ UNCHANGED << script, pw, browserVars, storeVars, domVars, ioVars,
                    elapsed, passedAt, exitStatus >>

S_Goto ==
    \E ok \in BOOLEAN :
        /\ Plain("s_goto", ok)
        /\ IF ok THEN Navigate(page)
                 ELSE UNCHANGED << navigated, visible, storage,
                                   startupStorage >>
        /\ UNCHANGED << script, pw, browserVars, initScripts, toggles,
                        journalFlashed, ioVars, exitStatus >>

S_FillTitle ==
    \E ok \in BOOLEAN :
        /\ Plain("s_fill_title", ok)
        /\ UNCHANGED << script, pw, browserVars, storeVars, domVars, ioVars,
                        exitStatus >>

S_FillContent ==
    \E ok \in BOOLEAN :
        /\ Plain("s_fill_content", ok)
        /\ UNCHANGED << script, pw, browserVars, storeVars, domVars, ioVars,
                        exitStatus >>

S_ClickSave ==
    \E ok \in BOOLEAN :
        /\ Plain("s_click_save", ok)
        /\ UNCHANGED << script, pw, browserVars, storeVars, domVars, ioVars,
                        exitStatus >>

S_ExpectEntry ==
    /\ Expect("s_expect_entry")
    /\ UNCHANGED << script, pw, browserVars, storeVars, domVars, ioVars,
                    exitStatus >>

S_DispatchEdit ==
    \E ok \in BOOLEAN :
        /\ Plain("s_dispatch_edit", ok)
        /\ UNCHANGED << script, pw, browserVars, storeVars, domVars, ioVars,
                        exitStatus >>

S_ExpectTextarea ==
    /\ Expect("s_expect_textarea")
    /\ UNCHANGED << script, pw, browserVars, storeVars, domVars, ioVars,
                    exitStatus >>

S_Screenshot ==
    \E ok \in BOOLEAN :
        /\ Screenshot("s_screenshot", EditShot, ok)
        /\ UNCHANGED << script, pw, browserVars, storeVars, domVars, out,
                        consoleMsgs, exitStatus >>

S_PrintOk ==
    /\ Ok("s_print_ok")
    /\ out' = Append(out, OkLine)
    /\ UNCHANGED << script, pw, browserVars, storeVars, domVars, shots,
                    consoleMsgs, elapsed, passedAt, exitStatus >>

\* except Exception as e: the exception is caught and its message printed
S_PrintFail ==
    /\ pc = "s_print_fail"
    /\ pc' = Succ(script, "s_print_fail")
    /\ trace' = Append(trace, "s_print_fail")
    /\ out' = Append(out, FailLine(exc))
    /\ exc' = "none"
    /\ UNCHANGED << script, pw, browserVars, storeVars, domVars, shots,
                    consoleMsgs, elapsed, passedAt, failed, exitStatus >>

S_FinallyClose ==
    /\ Ok("s_finally_close")
    /\ CloseBrowser
    /\ UNCHANGED << script, pw, pageCtx, ownsCtx, page, context, storeVars,
                    domVars, ioVars, elapsed, passedAt, exitStatus >>

S_ExitWith ==
    /\ script = "spacing"
    /\ ExitWith("s_exit_with")

----------------------------------------------------------------------------
(* The page under test and the clock *)

\* the steps of verify_spacing during which the console listener can fire
ListeningSteps ==
    { "s_fill_title", "s_fill_content", "s_click_save", "s_expect_entry",
      "s_dispatch_edit", "s_expect_textarea", "s_screenshot" }

\* the page shows or hides one of its elements
PageChange(p, e) ==
    /\ pw = "running"
    /\ pageState[p] = "open"
    /\ navigated[p]
    /\ toggles[p] < MaxToggles
    /\ e \in Elements(script)
    /\ visible' = [visible EXCEPT
                     ![p] = IF e \in @ THEN @ \ { e } ELSE @ \cup { e }]
    /\ toggles' = [toggles EXCEPT ![p] = @ + 1]
    /\ journalFlashed' = ( \/ journalFlashed
                           \/ /\ pc = "f2_expect_lock"
                              /\ p = page
                              /\ "#journalTab" \in visible'[p] )
    /\ UNCHANGED << script, pc, pw, browserVars, storeVars, ioVars, elapsed,
                    trace, passedAt, failed, exc, exitStatus >>

\* the page logs to its console; the listener of line 10 prints the message
PageConsole ==
    /\ pc \in ListeningSteps
    /\ pageState[page] = "open"
    /\ navigated[page]
    /\ consoleMsgs < MaxConsole
    /\ consoleMsgs' = consoleMsgs + 1
    /\ out' = Append(out, ConsoleLine)
    /\ UNCHANGED << script, pc, pw, browserVars, storeVars, domVars, shots,
                    elapsed, trace, passedAt, failed, exc, exitStatus >>

\* one time unit passes while a visibility assertion is pending
Tick ==
    /\ pc \in ExpectSteps
    /\ elapsed < Timeout(pc)
    /\ elapsed' = elapsed + 1
    /\ UNCHANGED << script, pc, pw, browserVars, storeVars, domVars, ioVars,
                    trace, passedAt, failed, exc, exitStatus >>

----------------------------------------------------------------------------
Next ==
    \/ F_Launch \/ F1_NewPage \/ F1_Goto \/ F1_ExpectJournal
    \/ F1_Screenshot \/ F1_PageClose
    \/ F2_NewContext \/ F2_AddInitScript \/ F2_NewPage \/ F2_Goto
    \/ F2_ExpectLock \/ F2_ExpectNotJournal \/ F2_Screenshot
    \/ F_BrowserClose \/ F_ExitWith
    \/ S_Launch \/ S_NewPage \/ S_PageOn \/ S_Goto \/ S_FillTitle
    \/ S_FillContent \/ S_ClickSave \/ S_ExpectEntry \/ S_DispatchEdit
    \/ S_ExpectTextarea \/ S_Screenshot \/ S_PrintOk \/ S_PrintFail
    \/ S_FinallyClose \/ S_ExitWith
    \/ \E p \in PageIds, e \in FlashElements \cup SpacingElements :
           PageChange(p, e)
    \/ PageConsole
    \/ Tick

Spec == Init /\ [][Next]_vars

TypeOK ==
    /\ script \in { "flash", "spacing" }
    /\ pw \in { "none", "running", "stopped" }
    /\ browser \in { "none", "open", "closed" }
    /\ page \in PageIds \cup { 0 }
    /\ context \in CtxIds \cup { 0 }
    /\ elapsed \in 0 .. TextareaTimeout
    /\ exitStatus \in { -1, 0, 1 }
    /\ shots \subseteq { UnlockedShot, LockedShot, EditShot }

----------------------------------------------------------------------------
(* Properties *)

InTrace(step) == \E i \in 1 .. Len(trace) : trace[i] = step

Passed(step) == passedAt[step] >= 0

Ended == pc = "ended"

FlashCase1Steps ==
    { "f1_new_page", "f1_goto", "f1_expect_journal", "f1_screenshot",
      "f1_page_close" }

VerifySpacingSteps ==
    { "s_page_on", "s_goto", "s_fill_title", "s_fill_content",
      "s_click_save", "s_expect_entry", "s_dispatch_edit",
      "s_expect_textarea", "s_screenshot" }

IsOutcome(l) == l.text # ConsoleLine.text

OutcomeLines == SelectSeq(out, IsOutcome)

\* C1: when the script has ended, on the success path and on every exception
\* path, browser.close() has been executed on the browser that was launched.
C1_BrowserClosedAtEnd ==
    Ended => browser = "closed"

\* C2: a scenario's screenshot is written only if every visibility assertion
\* before it has passed; when one of them fails the screenshot step of that
\* scenario is never executed; on the success path every screenshot of the
\* script has been written to its fixed path.
C2_ScreenshotAfterAssertions ==
    /\ UnlockedShot \in shots => Passed("f1_expect_journal")
    /\ LockedShot \in shots =>
           Passed("f2_expect_lock") /\ Passed("f2_expect_not_journal")
    /\ EditShot \in shots =>
           Passed("s_expect_entry") /\ Passed("s_expect_textarea")
    /\ failed = "f1_expect_journal" => ~ InTrace("f1_screenshot")
    /\ failed \in { "f2_expect_lock", "f2_expect_not_journal" } =>
           ~ InTrace("f2_screenshot")
    /\ failed \in { "s_expect_entry", "s_expect_textarea" } =>
           ~ InTrace("s_screenshot")
    /\ (Ended /\ failed = "none") =>
           shots = IF script = "flash" THEN { UnlockedShot, LockedShot }
                                       ELSE { EditShot }

C2_Witness ==
    /\ Ended
    /\ failed = "f2_expect_not_journal"
    /\ shots = { UnlockedShot }

\* C3: the locked scenario of verify_flash never passes in a run in which
\* #journalTab was visible at some moment between the navigation and the
\* appearance of #lockTab.
C3_NoFlashPasses ==
    (script = "flash" /\ Ended /\ failed = "none") => ~ journalFlashed

\* C4: a script ends with exit status zero exactly when no step raised.
C4_ExitStatusReflectsFailure ==
    Ended => (exitStatus = 0 <=> failed = "none")

\* C5: dreamJournalPinHash is registered and stored only in the browser
\* context created for the locked scenario; the page of the unlocked
\* scenario, opened by browser.new_page(), never observes the key.
C5_SeedStaysInLockedContext ==
    script = "flash" =>
        /\ \A p \in PageIds :
               ownsCtx[p] =>
                   /\ PinKey \notin startupStorage[p]
                   /\ PinKey \notin storage[pageCtx[p]]
                   /\ PinKey \notin initScripts[pageCtx[p]]
        /\ \A c \in CtxIds :
               PinKey \in storage[c] \cup initScripts[c] => c = context

C5_Witness ==
    /\ script = "flash"
    /\ navigated[1] /\ ownsCtx[1]
    /\ navigated[2] /\ pageCtx[2] = context
    /\ PinKey \in storage[context]

\* C6: when a step of Test Case 1 fails, Test Case 2 is still executed
\* before verify_flash ends.
C6_LockedScenarioStillRuns ==
    (script = "flash" /\ Ended /\ failed \in FlashCase1Steps) =>
        InTrace("f2_new_context")

\* C7: in the locked scenario the init script is registered on the context
\* before the page exists, and the key is in local storage when the first
\* script of the navigated page runs.
C7_SeedBeforeStartup ==
    script = "flash" =>
        \A p \in PageIds :
            (context # 0 /\ pageCtx[p] = context) =>
                /\ PinKey \in initScripts[context]
                /\ navigated[p] => PinKey \in startupStorage[p]

C7_Witness ==
    /\ script = "flash"
    /\ context # 0
    /\ pageCtx[2] = context
    /\ navigated[2]
    /\ PinKey \in startupStorage[2]

\* C8: when the script has ended, on every exit path, no page and no browser
\* context that it opened is still open.
C8_PagesReleasedAtEnd ==
    Ended => /\ \A p \in PageIds : pageState[p] # "open"
             /\ \A c \in CtxIds : ctxState[c] # "open"

\* C9: verify_spacing's steps run in their fixed order; Save Dream is clicked
\* only after both fills completed, the click event is dispatched only after
\* the entry was asserted visible, the screenshot is taken only after the
\* textarea was asserted visible within its 10 unit timeout; no step runs
\* after a step that raised.
C9_StepsGated ==
    script = "spacing" =>
        /\ \A i \in 1 .. Len(trace) :
               trace[i] \in VerifySpacingSteps => trace[i] = SpacingOrder[i]
        /\ InTrace("s_click_save") =>
               /\ InTrace("s_fill_title") /\ InTrace("s_fill_content")
               /\ failed \notin { "s_fill_title", "s_fill_content" }
        /\ InTrace("s_dispatch_edit") => Passed("s_expect_entry")
        /\ InTrace("s_screenshot") =>
               passedAt["s_expect_textarea"] \in 0 .. 10
        /\ \A i \in 1 .. Len(trace) :
               trace[i] = failed =>
                   \A j \in (i + 1) .. Len(trace) :
                       trace[j] \notin VerifySpacingSteps

C9_Witness ==
    /\ script = "spacing"
    /\ EditShot \in shots
    /\ passedAt["s_expect_textarea"] = 10
    /\ passedAt["s_expect_entry"] > 0

====
